---- MODULE Spec2Model ----
(***************************************************************************)
(* Model of the chaos-testing sandbox runner                               *)
(* (src/chaos_testing/sandbox_runner.py, src/chaos_testing/               *)
(* security_config.py).                                                    *)
(*                                                                         *)
(* Python strings are modelled as sequences of one-character strings, so   *)
(* that lower(), strip(), split(":") and re.search do real work.           *)
(***************************************************************************)
EXTENDS Integers, Sequences, FiniteSets, TLC

VARIABLES
    event,      \* detect_malicious_activity: the argument of the call
    verdict,    \* detect_malicious_activity: "none" before the call, then its outcome
    config,     \* validate_experiment: the argument of the call
    valid,      \* validate_experiment: "none" before the call, then its outcome
    experiment_files, \* parallel_chaos_run: its argument, a list of file names
    timeout,    \* run_chaos_test: its timeout argument
    pc,         \* per item: where its run_chaos_test call stands
    result,     \* per item: the `result` dict of monitor_sandbox
    sb,         \* per item: the sandbox of the run
    raised,     \* per item: the exception the call raised, "none" if none
    completed,  \* modal.map: the finished calls, in order of completion
    returned    \* parallel_chaos_run: what it has returned

vars == <<event, verdict, config, valid,
          experiment_files, timeout, pc, result, sb, raised, completed, returned>>

detect_vars == <<event, verdict>>

validate_vars == <<config, valid>>

batch_vars == <<experiment_files, timeout, pc, result, sb, raised, completed, returned>>

----------------------------------------------------------------------------
(* Python string helpers                                                   *)

UpperCase == <<"A", "B", "C", "D", "E", "F", "G", "H", "I", "J", "K", "L", "M",
               "N", "O", "P", "Q", "R", "S", "T", "U", "V", "W", "X", "Y", "Z">>

LowerCase == <<"a", "b", "c", "d", "e", "f", "g", "h", "i", "j", "k", "l", "m",
               "n", "o", "p", "q", "r", "s", "t", "u", "v", "w", "x", "y", "z">>

\* str.lower() on one character
lower_char(c) ==
    IF \E i \in 1..26 : UpperCase[i] = c
    THEN LowerCase[CHOOSE i \in 1..26 : UpperCase[i] = c]
    ELSE c

\* str.upper() on one character
upper_char(c) ==
    IF \E i \in 1..26 : LowerCase[i] = c
    THEN UpperCase[CHOOSE i \in 1..26 : LowerCase[i] = c]
    ELSE c

\* str.lower()
lower(s) == [i \in 1..Len(s) |-> lower_char(s[i])]

\* str.upper()
upper(s) == [i \in 1..Len(s) |-> upper_char(s[i])]

Whitespace == {" ", "\n", "\t", "\r"}

\* str.strip(): drop leading and trailing whitespace
strip(s) ==
    LET keep == {i \in 1..Len(s) : s[i] \notin Whitespace}
    IN  IF keep = {} THEN <<>>
        ELSE LET lo == CHOOSE i \in keep : \A j \in keep : i <= j
                 hi == CHOOSE i \in keep : \A j \in keep : j <= i
             IN  SubSeq(s, lo, hi)

\* p occurs in s as a contiguous substring
occurs_in(p, s) ==
    \E i \in 0..(Len(s) - Len(p)) : \A j \in 1..Len(p) : s[i + j] = p[j]

\* re.search(pattern, s) for a pattern that is an alternation of literals,
\* given as the set of its alternatives
re_search(alternatives, s) == \E p \in alternatives : occurs_in(p, s)

----------------------------------------------------------------------------
(* detect_malicious_activity and parse_chaos_event                         *)

P_permission_denied == <<"p", "e", "r", "m", "i", "s", "s", "i", "o", "n", " ", "d", "e", "n", "i", "e", "d">>
P_access_denied == <<"a", "c", "c", "e", "s", "s", " ", "d", "e", "n", "i", "e", "d">>
P_OOM == <<"O", "O", "M">>
P_out_of_memory == <<"o", "u", "t", " ", "o", "f", " ", "m", "e", "m", "o", "r", "y">>
P_ENOMEM == <<"E", "N", "O", "M", "E", "M">>
P_sh_c == <<"s", "h", " ", "-", "c">>
P_bash_c == <<"b", "a", "s", "h", " ", "-", "c">>
P_and_and == <<"&", "&">>
P_or_or == <<"|", "|">>

\* the regular expressions of suspicious_patterns, each as its alternatives,
\* spelled as in the source
suspicious_patterns ==
    [unauthorized_access |-> {P_permission_denied, P_access_denied},
     resource_exhaustion |-> {P_OOM, P_out_of_memory, P_ENOMEM},
     shell_injection     |-> {P_sh_c, P_bash_c, P_and_and, P_or_or}]

\* A decoded event.  kind "dict" is a JSON object, "other" any other JSON
\* value (a number, a list, ...).  hasMessage: the object has a "message"
\* key; strMessage: its value is a string; message: that string.
Event(kind, hasMessage, strMessage, message) ==
    [kind |-> kind, hasMessage |-> hasMessage, strMessage |-> strMessage,
     message |-> message]

\* {"message": m}
MessageEvent(m) == Event("dict", TRUE, TRUE, m)

\* detect_malicious_activity(event): "True", "False", or the exception raised
detect_malicious_activity(e) ==
    IF e.kind # "dict" THEN "AttributeError"                \* no .get
    ELSE IF e.hasMessage /\ ~e.strMessage THEN "AttributeError"  \* no .lower
    ELSE LET message == lower(IF e.hasMessage THEN e.message ELSE <<>>)
         IN  IF \E name \in DOMAIN suspicious_patterns :
                    re_search(suspicious_patterns[name], message)
             THEN "True"
             ELSE "False"

\* One line of sandbox output: its text, and what json.loads makes of it
\* ("invalid": JSONDecodeError; otherwise the decoded value).
Line(text, json, hasMessage, strMessage, message) ==
    [text |-> text, json |-> json, hasMessage |-> hasMessage,
     strMessage |-> strMessage, message |-> message]

\* parse_chaos_event(log_line)
parse_chaos_event(l) ==
    IF l.json # "invalid"
    THEN Event(l.json, l.hasMessage, l.strMessage, l.message)
    ELSE MessageEvent(strip(l.text))

----------------------------------------------------------------------------
(* validate_experiment                                                     *)

S_network == <<"n", "e", "t", "w", "o", "r", "k">>
S_system == <<"s", "y", "s", "t", "e", "m">>
S_time == <<"t", "i", "m", "e">>
S_k8s == <<"k", "8", "s">>
S_latency == <<"l", "a", "t", "e", "n", "c", "y">>
S_loss == <<"l", "o", "s", "s">>
S_duplication == <<"d", "u", "p", "l", "i", "c", "a", "t", "i", "o", "n">>
S_corruption == <<"c", "o", "r", "r", "u", "p", "t", "i", "o", "n">>
S_cpu == <<"c", "p", "u">>
S_memory == <<"m", "e", "m", "o", "r", "y">>
S_disk == <<"d", "i", "s", "k">>
S_process == <<"p", "r", "o", "c", "e", "s", "s">>
S_jitter == <<"j", "i", "t", "t", "e", "r">>
S_drift == <<"d", "r", "i", "f", "t">>
S_pod_failure == <<"p", "o", "d", "-", "f", "a", "i", "l", "u", "r", "e">>
S_container_kill == <<"c", "o", "n", "t", "a", "i", "n", "e", "r", "-", "k", "i", "l", "l">>
S_floodattack == <<"f", "l", "o", "o", "d", "a", "t", "t", "a", "c", "k">>
S_malware == <<"m", "a", "l", "w", "a", "r", "e">>
S_extra == <<"e", "x", "t", "r", "a">>

\* the allowlist validate_experiment consults (sandbox_runner.py)
ALLOWED_ACTIONS ==
    (S_network :> <<S_latency, S_loss, S_duplication>>)
    @@ (S_system :> <<S_cpu, S_memory, S_disk>>)
    @@ (S_time :> <<S_jitter, S_drift>>)

\* the Policy Store's action map (security_config.py), which
\* sandbox_runner.py does not import
security_config_ALLOWED_ACTIONS ==
    (S_network :> <<S_latency, S_loss, S_duplication, S_corruption>>)
    @@ (S_system :> <<S_cpu, S_memory, S_disk, S_process>>)
    @@ (S_time :> <<S_jitter, S_drift>>)
    @@ (S_k8s :> <<S_pod_failure, S_container_kill>>)

\* x in a Python list
in_list(x, list) == \E k \in 1..Len(list) : list[k] = x

\* str.split(sep) for a one-character separator
RECURSIVE split(_, _)
split(s, sep) ==
    IF \A i \in 1..Len(s) : s[i] # sep
    THEN <<s>>
    ELSE LET i == CHOOSE i \in 1..Len(s) :
                      s[i] = sep /\ \A j \in 1..(i - 1) : s[j] # sep
         IN  <<SubSeq(s, 1, i - 1)>> \o split(SubSeq(s, i + 1, Len(s)), sep)

\* An experiment document: kind "dict" is a mapping, "other" anything else;
\* hasActions: the mapping has an "actions" key; actions: its list.
Config(kind, hasActions, actions) ==
    [kind |-> kind, hasActions |-> hasActions, actions |-> actions]

\* One element of "actions": kind "dict" is a mapping, "other" anything else;
\* hasType: the mapping has a "type" key; type: its string.
Action(kind, hasType, type) == [kind |-> kind, hasType |-> hasType, type |-> type]

\* {"type": t}
TypedAction(t) == Action("dict", TRUE, t)

\* action_rejected with the method looked up in every category's list
action_rejected_any_list(category, method) ==
    \/ category \notin DOMAIN ALLOWED_ACTIONS
    \/ ~\E c \in DOMAIN ALLOWED_ACTIONS : in_list(method, ALLOWED_ACTIONS[c])

\* the condition of the `if` in the loop of validate_experiment
action_rejected(category, method) ==
    \/ category \notin DOMAIN ALLOWED_ACTIONS
    \/ ~in_list(method, ALLOWED_ACTIONS[category])

\* the loop of validate_experiment from the i-th action on
RECURSIVE validate_from(_, _)
validate_from(actions, i) ==
    IF i > Len(actions) THEN "True"
    ELSE LET action == actions[i]
         IN  IF action.kind # "dict" THEN "AttributeError"       \* no .get
             ELSE LET parts == split(IF action.hasType THEN action.type ELSE <<>>, ":")
                  IN  IF Len(parts) # 2 THEN "ValueError"        \* unpacking
                      ELSE IF action_rejected(parts[1], parts[2]) THEN "False"
                      ELSE validate_from(actions, i + 1)

\* a validator with an extra guard that refuses a document without actions
validate_experiment_rejects_empty(c) ==
    IF c.kind # "dict" THEN "False"
    ELSE IF ~c.hasActions \/ c.actions = <<>> THEN "False"
    ELSE validate_from(c.actions, 1)

\* validate_experiment(config): "True", "False", or the exception raised
validate_experiment(c) ==
    IF c.kind # "dict" THEN "False"
    ELSE validate_from(IF c.hasActions THEN c.actions ELSE <<>>, 1)

----------------------------------------------------------------------------
(* Inputs of the validator                                                 *)

MaxActions == 2

Colon == <<":">>

Categories == {S_network, S_system, S_time, S_k8s, S_malware}

Methods ==
    {S_latency, S_loss, S_duplication, S_corruption, S_cpu, S_memory, S_disk,
     S_process, S_jitter, S_drift, S_pod_failure, S_container_kill,
     S_floodattack}

\* every category:method token
PairTypes == {c \o Colon \o m : c \in Categories, m \in Methods}

\* tokens that do not split on ":" into two non-empty parts
MalformedTypes ==
    {<<>>, Colon, S_network, S_network \o Colon, Colon \o S_latency,
     S_network \o Colon \o S_latency \o Colon \o S_extra}

\* the actions used in documents of several actions
CoreActions ==
    {TypedAction(S_network \o Colon \o S_latency),
     TypedAction(S_system \o Colon \o S_cpu),
     TypedAction(S_network \o Colon \o S_floodattack),
     TypedAction(S_network \o Colon \o S_cpu),
     TypedAction(S_network),
     Action("dict", FALSE, <<>>)}

AllActions ==
    {TypedAction(t) : t \in PairTypes \cup MalformedTypes}
    \cup {Action("dict", FALSE, <<>>), Action("other", FALSE, <<>>)}

ValidatorInputs ==
    {Config("other", FALSE, <<>>), Config("dict", FALSE, <<>>)}
    \cup {Config("dict", TRUE, <<a>>) : a \in AllActions}
    \cup {Config("dict", TRUE, as) :
            as \in UNION {[1..n -> CoreActions] : n \in 0..MaxActions}}

----------------------------------------------------------------------------
(* Inputs of the detector                                                  *)

\* the nine indicators the detector is documented to flag
ListedIndicators ==
    {P_permission_denied, P_access_denied, P_OOM, P_out_of_memory, P_ENOMEM,
     P_sh_c, P_bash_c, P_and_and, P_or_or}

M_err == <<"e", "r", "r", ":", " ">>
M_shadow == <<":", " ", "/", "e", "t", "c", "/", "s", "h", "a", "d", "o", "w">>
M_latency == <<"l", "a", "t", "e", "n", "c", "y", " ", "i", "n", "j", "e", "c", "t", "e", "d", ":", " ", "5", "0", "m", "s">>
M_Permission_denied_shadow == <<"P", "e", "r", "m", "i", "s", "s", "i", "o", "n", " ", "d", "e", "n", "i", "e", "d", ":", " ", "/", "e", "t", "c", "/", "s", "h", "a", "d", "o", "w">>

\* an indicator as written, in upper case, in lower case, and capitalised
CaseVariants(p) ==
    {p, upper(p), lower(p), <<upper_char(p[1])>> \o lower(SubSeq(p, 2, Len(p)))}

\* messages that contain an indicator, in some letter case, in some context
IndicatorMessages ==
    {pre \o v \o post :
        pre \in {<<>>, M_err},
        v \in UNION {CaseVariants(p) : p \in ListedIndicators},
        post \in {<<>>, M_shadow}}

\* messages that contain no indicator (near misses included)
BenignMessages ==
    {M_latency, <<>>, M_err, M_shadow,
     <<"b", "a", "s", "h">>, <<"s", "h", " ", "-">>, <<"&">>, <<"|">>,
     <<"&", " ", "&">>, <<"o", "u", "t", " ", "o", "f", " ", "m", "e", "m", "o", "r">>,
     <<"d", "e", "n", "i", "e", "d">>, <<"o", "o", " ", "m">>}

DetectorInputs ==
    {MessageEvent(m) : m \in IndicatorMessages \cup BenignMessages}
    \cup {Event("dict", FALSE, FALSE, <<>>),      \* {} : no "message" key
          Event("dict", TRUE, FALSE, <<>>),       \* {"message": 5}
          Event("other", FALSE, FALSE, <<>>)}     \* 42

NoEvent == Event("dict", FALSE, FALSE, <<>>)

NoConfig == Config("dict", FALSE, <<>>)

----------------------------------------------------------------------------
(* run_chaos_test, monitor_sandbox, parallel_chaos_run                     *)

\* the longest batch explored
MaxFiles == 2

\* the most lines a sandbox writes when it is the only run
MaxLines == 3

\* the most lines the sandboxes of a batch of several runs write in total
MaxBatchLines == 1

S_dot_json == <<".", "j", "s", "o", "n">>
F_exp_json == <<"e", "x", "p", ".", "j", "s", "o", "n">>
F_evil_json == <<"e", "v", "i", "l", ".", "j", "s", "o", "n">>
F_exp_yaml == <<"e", "x", "p", ".", "y", "a", "m", "l">>
F_exp_json_bak == <<"e", "x", "p", ".", "j", "s", "o", "n", ".", "b", "a", "k">>
F_exp == <<"e", "x", "p">>
F_exp_JSON == <<"e", "x", "p", ".", "J", "S", "O", "N">>
F_exp_json_dot == <<"e", "x", "p", ".", "j", "s", "o", "n", ".">>

\* the experiment_file arguments tried: plain file names (no "/") of
\* ./chaos_experiments, mounted at /experiments
FileNames ==
    {F_exp_json, F_evil_json, F_exp_yaml, F_exp_json_bak, S_dot_json, F_exp,
     F_exp_JSON, F_exp_json_dot}

\* the document each file holds
DocumentOf(name) ==
    IF name = F_evil_json
    THEN Config("dict", TRUE, <<TypedAction(S_network \o Colon \o S_floodattack)>>)
    ELSE Config("dict", TRUE, <<TypedAction(S_network \o Colon \o S_latency)>>)

\* PurePath.suffix of a file name without "/": from the last "." on, unless
\* that "." is the first or the last character
path_suffix(name) ==
    LET dots == {i \in 1..Len(name) : name[i] = "."}
    IN  IF dots = {} THEN <<>>
        ELSE LET i == CHOOSE i \in dots : \A j \in dots : j <= i
             IN  IF 1 < i /\ i < Len(name) THEN SubSeq(name, i, Len(name)) ELSE <<>>

\* is_json_file with ".json" looked for anywhere in the name
is_json_file_contains(experiment_file) == occurs_in(S_dot_json, experiment_file)

\* the negation of the guard of the `raise ValueError` in run_chaos_test
is_json_file(experiment_file) == path_suffix(experiment_file) = S_dot_json

\* the lines a sandbox may write to its stdout
L_latency ==
    Line(<<"l", "a", "t", "e", "n", "c", "y", " ", "i", "n", "j", "e", "c", "t", "e", "d", ":", " ", "5", "0", "m", "s", "\n">>,
         "invalid", FALSE, FALSE, <<>>)
L_denied ==
    Line(<<"{", "\"", "m", "e", "s", "s", "a", "g", "e", "\"", ":", " ", "\"", "P", "e", "r", "m", "i", "s", "s", "i", "o", "n", " ", "d", "e", "n", "i", "e", "d", ":", " ", "/", "e", "t", "c", "/", "s", "h", "a", "d", "o", "w", "\"", "}", "\n">>,
         "dict", TRUE, TRUE, M_Permission_denied_shadow)
L_number ==
    Line(<<"4", "2", "\n">>, "other", FALSE, FALSE, <<>>)

Lines == {L_latency, L_denied, L_number}

\* exit codes of a process that ends by itself
ExitCodes == {0, 1}

\* sb.exit_code of a sandbox whose process has not ended (Python None)
NoExitCode == -1

\* sb.exit_code of a killed process
KilledExitCode == 137

\* the keyword arguments of Sandbox.create
SandboxCpu == 2

SandboxMemory == 8192

\* the timeout parallel_chaos_run passes to run_chaos_test
BatchTimeout == 600

\* the default of run_chaos_test's timeout parameter
DefaultTimeout == 300

\* the Policy Store's resource ceilings (security_config.py), which
\* sandbox_runner.py does not import
RESOURCE_LIMITS == [cpu |-> 2, memory |-> 8192, timeout |-> 600, disk |-> 1024]

\* the timeouts a direct caller of run_chaos_test passes: the default, the
\* batch's value, and one second more than the Policy Store's ceiling
CallerTimeouts == {DefaultTimeout, BatchTimeout, RESOURCE_LIMITS.timeout + 1}

\* modal.map without return_exceptions
return_exceptions_off == FALSE

\* modal.map(..., return_exceptions=True)
return_exceptions == TRUE

\* a sandbox that has not been created
NoSandbox ==
    [created |-> FALSE, timeout |-> 0, cpu |-> 0, memory |-> 0,
     out |-> <<>>, ended |-> FALSE, exit_code |-> NoExitCode,
     terminate_calls |-> 0, timed_out |-> FALSE, exec_calls |-> 0,
     released |-> FALSE]

\* Sandbox.create(app=app, command=..., timeout=timeout, workdir=..., cpu=2, memory=8192)
NewSandbox(timeout_arg) ==
    [NoSandbox EXCEPT !.created = TRUE, !.timeout = timeout_arg,
                      !.cpu = SandboxCpu, !.memory = SandboxMemory]

\* before monitor_sandbox has built its result
NoResult ==
    [status |-> "none", events |-> <<>>, has_exit |-> FALSE,
     exit_code |-> NoExitCode, logs |-> <<>>, has_artifacts |-> FALSE,
     artifacts |-> <<>>]

\* result = {"status": "running", "events": []}
new_result == [NoResult EXCEPT !.status = "running"]

\* result["status"] = "terminated"
on_violation(res) == [res EXCEPT !.status = "terminated"]

\* an except clause that leaves the status alone
on_timeout_ignored(res) == res

\* a handler that builds a fresh result for the timeout
on_timeout_fresh_result(res) == [new_result EXCEPT !.status = "timeout"]

\* except modal.exception.TimeoutError: result["status"] = "timeout"
on_timeout(res) == [res EXCEPT !.status = "timeout"]

\* result.update({"exit_code": sb.exit_code, "logs": sb.stdout.read()})
update_result(res, exit_code, logs) ==
    [res EXCEPT !.has_exit = TRUE, !.exit_code = exit_code, !.logs = logs]

\* find /experiments -name "*.json": the mounted files whose names end in
\* ".json", as the listing returns them
list_sandbox_artifacts == <<S_dot_json, F_evil_json, F_exp_json>>

Items == 1..Len(experiment_files)

\* the files used in batches of several runs
BatchFileNames == {F_exp_json, F_exp_yaml}

\* the most lines the sandboxes of this batch write in total
LineBound == IF Len(experiment_files) = 1 THEN MaxLines ELSE MaxBatchLines

RECURSIVE LinesWrittenUpTo(_)
LinesWrittenUpTo(n) == IF n = 0 THEN 0 ELSE Len(sb[n].out) + LinesWrittenUpTo(n - 1)

\* the lines the sandboxes have written so far
LinesWritten == LinesWrittenUpTo(Len(experiment_files))

\* one finished call, as modal.map sees it
Completion(i, exception, value) ==
    [index |-> i, exception |-> exception, value |-> value]

\* Entry of run_chaos_test for item i: the suffix check, Sandbox.create
\* (which may fail) and the first statement of monitor_sandbox.
RunChaosTest(i) ==
    /\ pc[i] = "pending"
    /\ IF ~is_json_file(experiment_files[i])
       THEN /\ pc' = [pc EXCEPT ![i] = "done"]
            /\ raised' = [raised EXCEPT ![i] = "ValueError"]
            /\ completed' = Append(completed, Completion(i, "ValueError", NoResult))
            /\ UNCHANGED <<sb, result>>
       ELSE \/ /\ pc' = [pc EXCEPT ![i] = "monitor"]
               /\ sb' = [sb EXCEPT ![i] = NewSandbox(timeout)]
               /\ result' = [result EXCEPT ![i] = new_result]
               /\ UNCHANGED <<raised, completed>>
            \/ /\ pc' = [pc EXCEPT ![i] = "done"]      \* Sandbox.create fails
               /\ raised' = [raised EXCEPT ![i] = "SandboxError"]
               /\ completed' = Append(completed, Completion(i, "SandboxError", NoResult))
               /\ UNCHANGED <<sb, result>>
    /\ UNCHANGED <<experiment_files, timeout, returned, detect_vars, validate_vars>>

\* the new event put at the head of the list
prepend_event(res, ev) == [res EXCEPT !.events = <<ev>> \o @]

\* result["events"].append(event)
append_event(res, ev) == [res EXCEPT !.events = Append(@, ev)]

\* a second terminate request for the same violation
terminate_twice(s) == [s EXCEPT !.terminate_calls = @ + 2]

\* sb.terminate()
terminate(s) == [s EXCEPT !.terminate_calls = @ + 1]

\* One iteration of `for line in sb.stdout` up to the `if`: the sandbox
\* writes a line, the loop parses it, appends the event and classifies it.
MonitorLine(i) ==
    /\ pc[i] = "monitor"
    /\ LinesWritten < LineBound
    /\ \E line \in Lines :
          LET ev == parse_chaos_event(line)
              d == detect_malicious_activity(ev)
          IN  /\ sb' = [sb EXCEPT ![i].out = Append(@, line)]
              /\ result' = [result EXCEPT ![i] = append_event(@, ev)]
              /\ IF d = "True"
                 THEN /\ pc' = [pc EXCEPT ![i] = "terminate"]
                      /\ UNCHANGED raised
                 ELSE IF d = "False"
                 THEN UNCHANGED <<pc, raised>>
                 ELSE /\ pc' = [pc EXCEPT ![i] = "unwind"]
                      /\ raised' = [raised EXCEPT ![i] = d]
    /\ UNCHANGED <<experiment_files, timeout, completed, returned, detect_vars, validate_vars>>

\* The body of the `if`, first statement: sb.terminate().
MonitorTerminate(i) ==
    /\ pc[i] = "terminate"
    /\ sb' = [sb EXCEPT ![i] = terminate(@)]
    /\ pc' = [pc EXCEPT ![i] = "mark"]
    /\ UNCHANGED <<experiment_files, timeout, result, raised, completed, returned,
                   detect_vars, validate_vars>>

\* The body of the `if`, continued: result["status"] = "terminated"; break.
MonitorBreak(i) ==
    /\ pc[i] = "mark"
    /\ result' = [result EXCEPT ![i] = on_violation(@)]
    /\ pc' = [pc EXCEPT ![i] = "drain"]
    /\ UNCHANGED <<experiment_files, timeout, sb, raised, completed, returned,
                   detect_vars, validate_vars>>

\* The sandbox's process ends by itself: the stream ends and the loop falls
\* through to result.update.
MonitorStreamEnd(i) ==
    /\ pc[i] = "monitor"
    /\ \E code \in ExitCodes :
          sb' = [sb EXCEPT ![i].ended = TRUE, ![i].exit_code = code]
    /\ pc' = [pc EXCEPT ![i] = "drain"]
    /\ UNCHANGED <<experiment_files, timeout, result, raised, completed, returned,
                   detect_vars, validate_vars>>

\* result.update(...) after the loop.  After a break the process may still
\* write until it dies: sb.stdout.read() returns those lines.
MonitorUpdate(i) ==
    /\ pc[i] = "drain"
    /\ IF sb[i].ended
       THEN /\ result' = [result EXCEPT ![i] = update_result(@, sb[i].exit_code, <<>>)]
            /\ UNCHANGED sb
       ELSE \E code \in {NoExitCode, KilledExitCode} :
            \E n \in 0..(LineBound - LinesWritten) :
            \E rest \in [1..n -> Lines] :
               /\ sb' = [sb EXCEPT ![i].out = @ \o rest, ![i].exit_code = code]
               /\ result' = [result EXCEPT ![i] = update_result(@, code, rest)]
    /\ pc' = [pc EXCEPT ![i] = "artifacts"]
    /\ UNCHANGED <<experiment_files, timeout, raised, completed, returned,
                   detect_vars, validate_vars>>

\* The sandbox exceeds its timeout while monitor_sandbox waits on its stdout
\* (in the loop, or in sb.stdout.read() while the process is still alive):
\* modal.exception.TimeoutError is raised and caught.
MonitorTimeout(i) ==
    /\ pc[i] \in {"monitor", "drain"}
    /\ ~sb[i].ended
    /\ sb' = [sb EXCEPT ![i].timed_out = TRUE]
    /\ result' = [result EXCEPT ![i] = on_timeout(@)]
    /\ pc' = [pc EXCEPT ![i] = "artifacts"]
    /\ UNCHANGED <<experiment_files, timeout, raised, completed, returned,
                   detect_vars, validate_vars>>

\* a run_chaos_test that returns the result of a terminated or timed out
\* run at once, without listing artifacts
ListArtifactsOfCleanRunsOnly(i) ==
    /\ pc[i] = "artifacts"
    /\ IF result[i].status = "running"
       THEN /\ sb' = [sb EXCEPT ![i].exec_calls = @ + 1]
            /\ result' = [result EXCEPT ![i].has_artifacts = TRUE,
                                        ![i].artifacts = list_sandbox_artifacts]
       ELSE UNCHANGED <<sb, result>>
    /\ pc' = [pc EXCEPT ![i] = "exit"]
    /\ UNCHANGED <<experiment_files, timeout, raised, completed, returned,
                   detect_vars, validate_vars>>

\* result["artifacts"] = list_sandbox_artifacts(sb); sb.exec may fail.
ListArtifacts(i) ==
    /\ pc[i] = "artifacts"
    /\ sb' = [sb EXCEPT ![i].exec_calls = @ + 1]
    /\ \/ /\ result' = [result EXCEPT ![i].has_artifacts = TRUE,
                                      ![i].artifacts = list_sandbox_artifacts]
          /\ pc' = [pc EXCEPT ![i] = "exit"]
          /\ UNCHANGED raised
       \/ /\ raised' = [raised EXCEPT ![i] = "ExecError"]
          /\ pc' = [pc EXCEPT ![i] = "unwind"]
          /\ UNCHANGED result
    /\ UNCHANGED <<experiment_files, timeout, completed, returned, detect_vars, validate_vars>>

\* cleanup written after the block instead of a `with`: skipped when the
\* block raises
leave_with_on_return_only(s, exception) ==
    IF exception = "none" THEN [s EXCEPT !.released = TRUE] ELSE s

\* `with Sandbox.create(...) as sb`: the sandbox's __exit__ runs however
\* the block is left, with the exception in flight if there is one
leave_with(s, exception) == [s EXCEPT !.released = TRUE]

\* Leaving the `with` block, by `return result` or by an exception: the
\* sandbox is released and the call completes.
LeaveSandbox(i) ==
    /\ pc[i] \in {"exit", "unwind"}
    /\ sb' = [sb EXCEPT ![i] = leave_with(@, raised[i])]
    /\ pc' = [pc EXCEPT ![i] = "done"]
    /\ completed' = Append(completed,
                            Completion(i, raised[i],
                                       IF raised[i] = "none" THEN result[i] ELSE NoResult))
    /\ UNCHANGED <<experiment_files, timeout, result, raised, returned,
                   detect_vars, validate_vars>>

\* what modal.map yields once every call has completed: one output per
\* input, in input order
map_outputs(n, done) ==
    [i \in 1..n |-> LET c == CHOOSE c \in {done[k] : k \in 1..Len(done)} : c.index = i
                    IN  [exception |-> c.exception, value |-> c.value]]

\* parallel_chaos_run returns what modal.map yields; without
\* return_exceptions the first exception would propagate instead.
ParallelReturn ==
    /\ returned.state = "running"
    /\ Len(completed) = Len(experiment_files)
    /\ IF return_exceptions \/ \A k \in 1..Len(completed) : completed[k].exception = "none"
       THEN returned' = [state |-> "returned",
                         outputs |-> map_outputs(Len(experiment_files), completed)]
       ELSE returned' = [state |-> "raised", outputs |-> <<>>]
    /\ UNCHANGED <<experiment_files, timeout, pc, result, sb, raised, completed,
                   detect_vars, validate_vars>>

NoBatch ==
    /\ experiment_files = <<>>
    /\ timeout = 0
    /\ pc = <<>>
    /\ result = <<>>
    /\ sb = <<>>
    /\ raised = <<>>
    /\ completed = <<>>
    /\ returned = [state |-> "none", outputs |-> <<>>]

\* Either parallel_chaos_run is called on a list of files and maps
\* run_chaos_test over it with its own timeout, or run_chaos_test is called
\* directly on one file with the caller's timeout (returned.state = "none":
\* no parallel_chaos_run call is in progress).
Init ==
    /\ \/ /\ experiment_files \in
                {<<f>> : f \in FileNames}
                \cup UNION {[1..n -> BatchFileNames] : n \in 2..MaxFiles}
          /\ timeout = BatchTimeout
          /\ returned = [state |-> "running", outputs |-> <<>>]
       \/ /\ experiment_files \in {<<f>> : f \in FileNames}
          /\ timeout \in CallerTimeouts
          /\ returned = [state |-> "none", outputs |-> <<>>]
    /\ pc = [i \in Items |-> "pending"]
    /\ result = [i \in Items |-> NoResult]
    /\ sb = [i \in Items |-> NoSandbox]
    /\ raised = [i \in Items |-> "none"]
    /\ completed = <<>>
    /\ event = NoEvent
    /\ verdict = "none"
    /\ config = NoConfig
    /\ valid = "none"

Next ==
    \/ \E i \in Items : RunChaosTest(i)
    \/ \E i \in Items : MonitorLine(i)
    \/ \E i \in Items : MonitorTerminate(i)
    \/ \E i \in Items : MonitorBreak(i)
    \/ \E i \in Items : MonitorStreamEnd(i)
    \/ \E i \in Items : MonitorUpdate(i)
    \/ \E i \in Items : MonitorTimeout(i)
    \/ \E i \in Items : ListArtifacts(i)
    \/ \E i \in Items : LeaveSandbox(i)
    \/ ParallelReturn

Spec == Init /\ [][Next]_vars

----------------------------------------------------------------------------
(* The detector as a state machine: one call on one event                 *)

InitDetect ==
    /\ event \in DetectorInputs
    /\ verdict = "none"
    /\ config = NoConfig
    /\ valid = "none"
    /\ NoBatch

Detect ==
    /\ verdict = "none"
    /\ verdict' = detect_malicious_activity(event)
    /\ UNCHANGED <<event, validate_vars, batch_vars>>

NextDetect == Detect

SpecDetect == InitDetect /\ [][NextDetect]_vars

----------------------------------------------------------------------------
(* The validator as a state machine: one call on one document             *)

InitValidate ==
    /\ config \in ValidatorInputs
    /\ valid = "none"
    /\ event = NoEvent
    /\ verdict = "none"
    /\ NoBatch

Validate ==
    /\ valid = "none"
    /\ valid' = validate_experiment(config)
    /\ UNCHANGED <<config, detect_vars, batch_vars>>

NextValidate == Validate

SpecValidate == InitValidate /\ [][NextValidate]_vars

----------------------------------------------------------------------------
(* Properties of a run and of a batch                                      *)

\* monitor_sandbox has returned its result for item i
MonitorReturned(i) ==
    /\ sb[i].created
    /\ pc[i] \in {"artifacts", "exit", "unwind", "done"}
    /\ raised[i] \in {"none", "ExecError"}

\* the detector flags the line
Violating(line) == detect_malicious_activity(parse_chaos_event(line)) = "True"

\* the position of the first violating line of a stream, 0 if there is none
FirstViolation(out) ==
    IF \E k \in 1..Len(out) : Violating(out[k])
    THEN CHOOSE k \in 1..Len(out) :
            Violating(out[k]) /\ \A j \in 1..(k - 1) : ~Violating(out[j])
    ELSE 0

\* C1: a run whose output has its first violating line at position k returns
\* with exactly k events, the k-th being that line's, and status terminated.
C1_FirstViolationEndsRun ==
    \A i \in Items :
        (MonitorReturned(i) /\ FirstViolation(sb[i].out) # 0) =>
            LET k == FirstViolation(sb[i].out)
            IN  /\ Len(result[i].events) = k
                /\ result[i].events[k] = parse_chaos_event(sb[i].out[k])
                /\ result[i].status = "terminated"

\* C2: a run whose output ends with no violating line and no timeout returns
\* with status completed and the sandbox's exit code.
C2_CleanRunCompletes ==
    \A i \in Items :
        (MonitorReturned(i) /\ sb[i].ended /\ ~sb[i].timed_out
            /\ FirstViolation(sb[i].out) = 0) =>
            /\ result[i].status = "completed"
            /\ result[i].has_exit
            /\ result[i].exit_code = sb[i].exit_code

TerminalStatus == {"terminated", "completed", "timeout"}

\* C3: once the status of a run is terminal, no step changes it or appends
\* an event.
C3_TerminalStatusIsFinal ==
    [][\A i \in Items :
          result[i].status \in TerminalStatus =>
              /\ result'[i].status = result[i].status
              /\ result'[i].events = result[i].events]_vars

\* C4: a run whose sandbox exceeds its timeout while the output is consumed,
\* before the stream's end and before any violating line, returns with status
\* timeout.
C4_TimeoutDuringMonitoring ==
    \A i \in Items :
        (MonitorReturned(i) /\ sb[i].timed_out /\ sb[i].terminate_calls = 0) =>
            /\ result[i].status = "timeout"
            /\ \A k \in 1..Len(completed) :
                  (completed[k].index = i /\ completed[k].exception = "none") =>
                      completed[k].value.status = "timeout"

\* C4 witness: a run with one benign event recorded has timed out and returned.
C4_Witness ==
    \E i \in Items :
        /\ pc[i] = "done"
        /\ raised[i] = "none"
        /\ sb[i].timed_out
        /\ sb[i].terminate_calls = 0
        /\ Len(result[i].events) = 1
        /\ result[i].status = "timeout"

\* C5: the batch returns one output per input, output i being the outcome of
\* run i whatever the order of completion; a raised exception is held in its
\* own slot and the other slots hold their runs' results.
C5_BatchKeepsInputOrder ==
    /\ returned.state # "raised"
    /\ (Len(completed) = Len(experiment_files) /\ returned.state = "running")
          => ENABLED ParallelReturn
    /\ returned.state = "returned" =>
          /\ Len(returned.outputs) = Len(experiment_files)
          /\ \A i \in Items :
                /\ returned.outputs[i].exception = raised[i]
                /\ raised[i] = "none" => returned.outputs[i].value = result[i]

\* C5 witness: a batch of two has returned, the second item having raised
\* first and the first item having returned a result afterwards.
C5_Witness ==
    /\ returned.state = "returned"
    /\ Len(experiment_files) = 2
    /\ completed[1].index = 2
    /\ raised[2] # "none"
    /\ raised[1] = "none"
    /\ returned.outputs[1].value.has_artifacts

\* C6: no sandbox is created for an experiment whose document fails
\* validate_experiment; such an item raises instead.
C6_ValidatedBeforeSandbox ==
    \A i \in Items :
        validate_experiment(DocumentOf(experiment_files[i])) # "True" =>
            /\ ~sb[i].created
            /\ pc[i] = "done" => raised[i] # "none"

\* C11: a sandbox that was created is released whenever its run has ended,
\* by a return (completed, terminated or timed out) or by an exception
\* raised during monitoring or artifact listing; it is released once the
\* block is left and not before.
C11_SandboxReleasedOnEveryExit ==
    \A i \in Items :
        /\ (pc[i] = "done" /\ sb[i].created) => sb[i].released
        /\ sb[i].released => (sb[i].created /\ pc[i] = "done")

\* C11 witness: a run whose monitoring raised (a line that is not a JSON
\* object) has ended and its sandbox is released.
C11_Witness ==
    \E i \in Items :
        /\ pc[i] = "done"
        /\ raised[i] = "AttributeError"
        /\ sb[i].created
        /\ sb[i].released

\* the runs that hold a sandbox: created and not yet released
LiveSandboxes == {i \in Items : sb[i].created /\ ~sb[i].released}

\* C12: a batch never holds more sandboxes at once than its concurrency
\* limit.  For a limit below the batch size this means that in a batch of
\* two or more files at least one item is waiting or finished at every
\* moment: the files never all hold a sandbox together.
C12_BatchHoldsItemsBack ==
    Len(experiment_files) >= 2 =>
        Cardinality(LiveSandboxes) < Len(experiment_files)

\* C15: every sandbox is created within the Policy Store's ceilings for
\* cpu, memory and timeout, whatever timeout run_chaos_test was called with.
C15_SandboxWithinPolicyCeilings ==
    \A i \in Items :
        sb[i].created =>
            /\ sb[i].cpu <= RESOURCE_LIMITS.cpu
            /\ sb[i].memory <= RESOURCE_LIMITS.memory
            /\ sb[i].timeout <= RESOURCE_LIMITS.timeout

\* the events of run i are the parsed forms of the first lines its sandbox
\* has written, one per line and in the order written; while the loop is
\* still reading, every written line has its event
EventsAreParsedPrefix(i) ==
    /\ Len(result[i].events) <= Len(sb[i].out)
    /\ \A k \in 1..Len(result[i].events) :
          result[i].events[k] = parse_chaos_event(sb[i].out[k])
    /\ pc[i] \in {"monitor", "terminate", "mark", "drain"} =>
          Len(result[i].events) = Len(sb[i].out)

\* a step leaves the events of run i as they are or adds one at the end
EventsOnlyAppended(i) ==
    /\ Len(result'[i].events) \in {Len(result[i].events), Len(result[i].events) + 1}
    /\ SubSeq(result'[i].events, 1, Len(result[i].events)) = result[i].events

\* C16: at every point of a run the recorded events are the parsed forms of
\* a prefix of the lines the sandbox has written, in order and one per
\* consumed line, and every step only appends to them.
C16_EventsAreAppendOnlyPrefix ==
    /\ [](\A i \in Items : EventsAreParsedPrefix(i))
    /\ [][\A i \in Items : EventsOnlyAppended(i)]_vars

\* C16 witness: a run has recorded two events, a benign one and then a
\* violating one, and its sandbox wrote a third line after the break.
C16_Witness ==
    \E i \in Items :
        /\ Len(result[i].events) = 2
        /\ Len(sb[i].out) = 3
        /\ result[i].events[1] = parse_chaos_event(L_latency)
        /\ result[i].events[2] = parse_chaos_event(L_denied)
        /\ result[i].has_exit

\* C17: a started run does not stay in Running: once the run of a created
\* sandbox has ended, monitor_sandbox has returned and the status it
\* returned is completed, terminated or timeout.
C17_StartedRunEndsInTerminalStatus ==
    \A i \in Items :
        (pc[i] = "done" /\ sb[i].created) =>
            /\ MonitorReturned(i)
            /\ result[i].status \in TerminalStatus

\* the lines the detector flags
ViolatingLines == {line \in Lines : Violating(line)}

\* the k-th recorded event of run i is that of a line the detector flags
ViolatingEvent(i, k) ==
    /\ sb[i].out[k] \in ViolatingLines
    /\ result[i].events[k] = parse_chaos_event(sb[i].out[k])

\* C18: within one run sb.terminate() is called at most once; when it is
\* about to be called or has been called, the last recorded event is a
\* violating one and the only one; the status is not yet terminated when
\* the call is made and is set only after it; a run that has recorded no
\* violating event has not called it.
C18_TerminateOnceAfterViolation ==
    \A i \in Items :
        LET n == Len(result[i].events)
        IN  /\ sb[i].terminate_calls <= 1
            /\ (sb[i].terminate_calls = 1 \/ pc[i] = "terminate") =>
                  /\ n >= 1
                  /\ ViolatingEvent(i, n)
                  /\ \A k \in 1..(n - 1) : sb[i].out[k] \notin ViolatingLines
            /\ pc[i] = "terminate" =>
                  /\ sb[i].terminate_calls = 0
                  /\ result[i].status = "running"
            /\ pc[i] = "mark" =>
                  /\ sb[i].terminate_calls = 1
                  /\ result[i].status = "running"
            /\ result[i].status = "terminated" => sb[i].terminate_calls = 1
            /\ (\A k \in 1..n : sb[i].out[k] \notin ViolatingLines) =>
                  sb[i].terminate_calls = 0

\* C18 witness: termination has been requested for a run whose second line
\* was the violating one, and the status is still running.
C18_Witness ==
    \E i \in Items :
        /\ pc[i] = "mark"
        /\ sb[i].terminate_calls = 1
        /\ Len(result[i].events) = 2
        /\ result[i].status = "running"

\* a result with status timeout holds the events of all the lines read, in
\* order, and neither exit code nor logs
TimedOutResultKeepsEvents(res, out) ==
    res.status = "timeout" =>
        /\ Len(res.events) = Len(out)
        /\ \A k \in 1..Len(out) : res.events[k] = parse_chaos_event(out[k])
        /\ ~res.has_exit
        /\ res.exit_code = NoExitCode
        /\ res.logs = <<>>

\* C19: when a run ends with status timeout, the events recorded before the
\* timeout are all in the result, in order, and the result has no exit code
\* and no logs; this holds of the result as monitor_sandbox leaves it and as
\* the call returns it.
C19_TimeoutKeepsEventsOnly ==
    /\ \A i \in Items : TimedOutResultKeepsEvents(result[i], sb[i].out)
    /\ \A k \in 1..Len(completed) :
          completed[k].exception = "none" =>
              TimedOutResultKeepsEvents(completed[k].value, sb[completed[k].index].out)

\* C19 witness: a run that timed out after two lines has returned its result.
C19_Witness ==
    \E k \in 1..Len(completed) :
        /\ completed[k].exception = "none"
        /\ completed[k].value.status = "timeout"
        /\ Len(completed[k].value.events) = 2
        /\ sb[completed[k].index].timed_out

\* C20: artifacts are listed once per run, after monitor_sandbox has
\* returned and while the sandbox is still held; every run that returns a
\* result, whatever its status, has listed them and returns them in the
\* result.
C20_ArtifactsListedOnceBeforeRelease ==
    /\ \A i \in Items :
          /\ sb[i].exec_calls <= 1
          /\ pc[i] \in {"pending", "monitor", "terminate", "mark", "drain", "artifacts"} =>
                /\ sb[i].exec_calls = 0
                /\ ~result[i].has_artifacts
          /\ sb[i].exec_calls = 1 => MonitorReturned(i)
          /\ pc[i] = "exit" =>
                /\ sb[i].exec_calls = 1
                /\ result[i].has_artifacts
                /\ ~sb[i].released
          /\ sb[i].released => pc[i] = "done"
          /\ (pc[i] = "done" /\ raised[i] = "none") =>
                /\ sb[i].exec_calls = 1
                /\ sb[i].released
                /\ result[i].has_artifacts
                /\ result[i].artifacts = list_sandbox_artifacts
    /\ \A k \in 1..Len(completed) :
          completed[k].exception = "none" =>
              /\ completed[k].value.has_artifacts
              /\ completed[k].value = result[completed[k].index]

\* C20 witness: a run that was terminated after a violation has returned a
\* result that carries the artifacts.
C20_Witness ==
    \E k \in 1..Len(completed) :
        /\ completed[k].exception = "none"
        /\ completed[k].value.status = "terminated"
        /\ completed[k].value.has_artifacts
        /\ sb[completed[k].index].exec_calls = 1
        /\ sb[completed[k].index].released

\* the file name ends in ".json"
EndsInJson(name) ==
    Len(name) >= Len(S_dot_json)
    /\ SubSeq(name, Len(name) - Len(S_dot_json) + 1, Len(name)) = S_dot_json

\* C10: a file whose name does not end in .json is rejected with ValueError
\* and no sandbox is created, monitored, terminated or listed for it.
C10_NonJsonRejectedBeforeSandbox ==
    \A i \in Items :
        ~EndsInJson(experiment_files[i]) =>
            /\ ~sb[i].created
            /\ sb[i].terminate_calls = 0
            /\ sb[i].exec_calls = 0
            /\ result[i] = NoResult
            /\ pc[i] \in {"pending", "done"}
            /\ pc[i] = "done" => raised[i] = "ValueError"

\* C10 witness: exp.json.bak has been rejected.
C10_Witness ==
    \E i \in Items :
        /\ experiment_files[i] = F_exp_json_bak
        /\ pc[i] = "done"
        /\ raised[i] = "ValueError"
        /\ ~sb[i].created

----------------------------------------------------------------------------
(* Properties of the validator                                             *)

\* exactly one ":" in the token: the form category:method
IsPairType(t) == Cardinality({i \in 1..Len(t) : t[i] = ":"}) = 1

\* the token names one of the allowlist's category:method pairs
NamesAllowedPair(t) ==
    \E c \in DOMAIN ALLOWED_ACTIONS : \E k \in 1..Len(ALLOWED_ACTIONS[c]) :
        t = c \o Colon \o ALLOWED_ACTIONS[c][k]

ActionsOf(c) == IF c.hasActions THEN c.actions ELSE <<>>

\* a mapping whose actions each carry a type of the form category:method
WellFormedDocument(c) ==
    /\ c.kind = "dict"
    /\ \A i \in 1..Len(ActionsOf(c)) :
          /\ ActionsOf(c)[i].kind = "dict"
          /\ ActionsOf(c)[i].hasType
          /\ IsPairType(ActionsOf(c)[i].type)

\* C7: on a well-formed document validate_experiment returns False when some
\* action's category:method pair is not in the allowlist, and True otherwise.
C7_ValidateDecidesByAllowlist ==
    (valid # "none" /\ WellFormedDocument(config)) =>
        valid = IF \A i \in 1..Len(ActionsOf(config)) :
                       NamesAllowedPair(ActionsOf(config)[i].type)
                THEN "True"
                ELSE "False"

\* C7 witness: a two-action document whose first action is allowed and whose
\* second is network:floodattack has been validated (and rejected).
C7_Witness ==
    /\ valid = "False"
    /\ WellFormedDocument(config)
    /\ Len(ActionsOf(config)) = 2
    /\ ActionsOf(config)[1].type = S_network \o Colon \o S_latency
    /\ ActionsOf(config)[2].type = S_network \o Colon \o S_floodattack

\* the token names a category of the Policy Store's action map and a method
\* of that category's list
PolicyAllowsPair(t) ==
    \E c \in DOMAIN security_config_ALLOWED_ACTIONS :
        \E k \in 1..Len(security_config_ALLOWED_ACTIONS[c]) :
            t = c \o Colon \o security_config_ALLOWED_ACTIONS[c][k]

\* C13: a document that declares the single action category:method
\* validates true exactly when the Policy Store's action map has the
\* category as a key and the method in that category's list.
C13_ValidatorAgreesWithPolicyStore ==
    (/\ valid # "none"
     /\ WellFormedDocument(config)
     /\ Len(ActionsOf(config)) = 1) =>
        (valid = "True" <=> PolicyAllowsPair(ActionsOf(config)[1].type))

\* a mapping that declares no actions: no "actions" key, or an empty list
EmptyDocument(c) == c.kind = "dict" /\ ActionsOf(c) = <<>>

\* C14 as stated: validate_experiment returns False for an empty document.
C14_EmptyDocumentInvalid ==
    (valid # "none" /\ EmptyDocument(config)) => valid = "False"

\* C14: validate_experiment returns True for an empty document: with no
\* action to reject, the loop body never runs.
C14_EmptyDocumentValid ==
    (valid # "none" /\ EmptyDocument(config)) => valid = "True"

\* C14 witness: the document with an empty actions list has been validated.
C14_Witness ==
    /\ valid = "True"
    /\ config.kind = "dict"
    /\ config.hasActions
    /\ config.actions = <<>>

\* the token splits on ":" into exactly two non-empty parts
SplitsInTwoNonEmpty(t) ==
    \E i \in 2..(Len(t) - 1) : t[i] = ":" /\ \A j \in 1..Len(t) : t[j] = ":" => j = i

\* not a document, or some action without a well-formed type token
MalformedDocument(c) ==
    \/ c.kind # "dict"
    \/ \E i \in 1..Len(ActionsOf(c)) :
          \/ ActionsOf(c)[i].kind # "dict"
          \/ ~ActionsOf(c)[i].hasType
          \/ ~SplitsInTwoNonEmpty(ActionsOf(c)[i].type)

\* C8: validate_experiment is total: it never raises, and it returns False
\* for a non-document and for a document with a malformed type token.
C8_ValidateIsTotal ==
    valid # "none" =>
        /\ valid \in {"True", "False"}
        /\ MalformedDocument(config) => valid = "False"

----------------------------------------------------------------------------
(* Properties of the detector                                              *)

\* the message contains one of the listed indicators, in any letter case
ContainsIndicator(m) ==
    \E p \in ListedIndicators : occurs_in(lower(p), lower(m))

\* C9: an event whose message contains a listed indicator in any letter case
\* is a violation, and an event whose message contains none is not.
C9_DetectorFlagsListedIndicators ==
    (verdict # "none" /\ event.kind = "dict" /\ event.hasMessage /\ event.strMessage)
        => (verdict = "True" <=> ContainsIndicator(event.message))

====
